---- MODULE Spec2Model ----
(***************************************************************************)
(* A model of alsa_midi/client.py: the sequencer client handle, its        *)
(* metadata queries and its two event I/O waiters (the blocking one of      *)
(* SequencerClient and the event-loop one of AsyncSequencerClient).         *)
(*                                                                         *)
(* One client object is modelled.  Its class is fixed at construction       *)
(* (cls).  The operations SequencerClientBase defines and no subclass       *)
(* overrides are explored on a SequencerClientBase instance; the waiters    *)
(* are explored on the subclass that defines them.                          *)
(***************************************************************************)
EXTENDS Integers, Sequences, FiniteSets, TLC

\* ------------------------------------------------------------------ bounds
MaxClientId == 2      \* client ids the service may hold: 0..MaxClientId
MaxPortId == 1        \* port / queue ids the service hands out: 0..MaxPortId
MaxTimeout == 2       \* timeouts given by the caller: None, 0..MaxTimeout
MaxClock == 3         \* the monotonic clock runs 0..MaxClock
MaxOps == 2           \* event-loop operations started per direction

\* ------------------------------------------------------- program constants
EAGAIN == 11          \* errno.EAGAIN: the native call would block
ENOENT == 2           \* errno.ENOENT: the query cursor is exhausted

\* ---------------------------------------------------------- Python values
\* Optional[T]: None is the empty tuple, a present value x is <<x>>.
None == <<>>
Some(x) == <<x>>
Val(o) == o[1]

\* `if timeout:` -- None and 0 are both falsy
Truthy(t) == t # None /\ Val(t) # 0

Classes == {"Base", "Sync", "Async"}
Dirs == {"in", "out"}
Slots == {"call", "in", "out"}
Timeouts == {None} \cup {Some(n) : n \in 0..MaxTimeout}

\* Negative statuses the service may answer with besides EAGAIN and ENOENT
\* (EINVAL, ENOMEM, ENOSPC).
OtherErrors == {-22}
AllocErrors == {-12}

VARIABLES
    cls,        \* class of the client object
    handle_p,   \* self._handle_p: Some("ptr") holding the native handle, or None
    handle,     \* self.handle: Some("ptr") or None
    torn,       \* the object has been torn down (__del__ ran)
    nclose,     \* number of snd_seq_close calls made so far
    faulty,     \* environment: the service / allocator may answer with errors
    client_id,  \* self.client_id, assigned by the service at open
    clients,    \* environment: the ids of the clients the service holds
    ports,      \* environment: the <<client, port>> pairs the service holds
    through,    \* environment: the client named "Midi Through", or None
    pattr,      \* environment: per address, the capabilities and type of its port
    pobj,       \* per port id, the Port object create_port returned for it
    res,        \* per slot, the outcome of the most recent call
    trav,       \* the caller's client traversal (query_next_client loop)
    now,        \* environment: time.monotonic()
    readable,   \* environment: the descriptor is ready for reading
    writable,   \* environment: the descriptor is ready for writing
    pc,         \* per direction, where the waited operation stands
    tmo,        \* per direction, the timeout the operation was called with
    until,      \* blocking waiter: the deadline, or None
    remaining,  \* blocking waiter: the argument of the poll in progress
    fut,        \* event-loop waiter: per direction, the future of the operation
    opid,       \* event-loop waiter: per direction, number of operations started
    regs,       \* event loop: callbacks registered for the descriptor
    lastRes,    \* per direction, the last native status of the current operation
    released,   \* a native call was handed a handle already released
    lost        \* an event was read from the service and given to no caller

objVars == <<cls, handle_p, handle, torn, nclose, client_id>>
svcVars == <<clients, ports, through, pattr>>
waitVars == <<now, readable, writable, pc, tmo, until, remaining, fut,
              opid, regs, lastRes, released, lost>>
vars == <<cls, handle_p, handle, torn, nclose, client_id, faulty, clients, ports,
          through, pattr, pobj, res, trav,
          now, readable, writable, pc, tmo, until, remaining, fut,
          opid, regs, lastRes, released, lost>>

\* ------------------------------------------------------------ call results
\* op: the operation; closed: the handle was closed when it was invoked;
\* kind: how it ended ("return", "None", "event", "ClientInfo", "PortInfo",
\* "Port", "Queue", or the exception raised); val: the status or id carried;
\* native: the last native function that was handed the handle ("none" if
\* there was none); allocs / frees: native records allocated and freed;
\* cinfo / pinfo: the snapshot returned.
\* Of a metadata query: arg: the `previous` argument (its type, the client id of
\* a snapshot, its number); req: the client id asked for; status: what the
\* service answered; sentc / sent: the client and the cursor given to it.
\* port / queue: the Port or Queue object returned.  Of list_ports: largs: its
\* arguments; list: the list returned; table: the sort key chosen.  Of a
\* subscription call: sargs: its arguments; sub: the descriptor handed to the
\* service.
NoArg == [t |-> "none", c |-> -1, n |-> -1]
NoRes ==
    [op |-> "none", closed |-> FALSE, kind |-> "none", val |-> 0,
     native |-> "none", allocs |-> 0, frees |-> 0,
     arg |-> NoArg, req |-> -1, status |-> None, sentc |-> None, sent |-> None,
     cinfo |-> None, pinfo |-> None,
     port |-> None, queue |-> None,
     largs |-> None, list |-> <<>>, table |-> "none",
     sargs |-> None, sub |-> None]

Result(op, kind, val, native) ==
    [NoRes EXCEPT !.op = op, !.closed = (handle_p = None), !.kind = kind,
                  !.val = val, !.native = native]

\* A blocking call is the only call in progress, so its record replaces every
\* earlier one.
Latest(slot, r) ==
    IF cls = "Async" THEN [res EXCEPT ![slot] = r]
    ELSE [x \in Slots |-> IF x = slot THEN r ELSE NoRes]

\* util._check_alsa_error(err): raises for a negative status
_check_alsa_error(err) == err < 0

\* SequencerClientBase._check_handle: raises StateError("Already closed")
_check_handle == handle_p = None

\* What the binding does with self.handle when it is None (a closed client):
\* cffi refuses None for a pointer argument, so the call raises TypeError
\* before the library is entered.
NoHandle == handle = None

\* ------------------------------------------------------------- environment
\* Statuses a native call may answer with: the regular answers `ok`, and an
\* error when the service is faulty.
Statuses(ok) == ok \cup (IF faulty THEN OtherErrors ELSE {})
AllocStatuses == {0} \cup (IF faulty THEN AllocErrors ELSE {})

Idle == \A d \in Dirs : pc[d] = "idle"

\* An asyncio future: st is "none" (no future), "pending", "result" (val is the
\* status set), "exception" or "cancelled"; reg tells whether the callback
\* that resolved it was registered with the event loop at that moment.
NoFuture == [st |-> "none", val |-> 0, reg |-> FALSE]

\* The caller can invoke an operation: the object exists and, for the blocking
\* classes, the one calling thread is not inside another call.
CanCall == ~torn /\ (cls # "Async" => Idle)

\* port.PortCaps, port.PortType and the defaults of create_port
\* (alsa_midi/port.py): capability and type masks are sets of flags.
PortCaps == {"READ", "WRITE", "SUBS_READ", "SUBS_WRITE", "NO_EXPORT"}
PortType == {"MIDI_GENERIC", "SOFTWARE"}
RW_PORT == {"READ", "WRITE", "SUBS_READ", "SUBS_WRITE"}
DEFAULT_PORT_TYPE == {"MIDI_GENERIC", "SOFTWARE"}

\* port.Port(client, port_id): the object refers to its client and keeps the
\* address of the port; st is "live" until the object is torn down ("torn");
\* ndelete counts the deletions of the port from the sequencer the object has
\* made and refused tells that the service refused its deletion.
Port(client, port_id) ==
    [st |-> "live", client |-> Some(client), client_id |-> client,
     port_id |-> port_id, ndelete |-> 0, refused |-> FALSE]
NoPort ==
    [st |-> "none", client |-> None, client_id |-> -1, port_id |-> -1,
     ndelete |-> 0, refused |-> FALSE]

\* queue.Queue(client, queue_id)
Queue(client, queue_id) == [client |-> Some(client), queue_id |-> queue_id]

\* the addresses a port may have
Addrs == (0..MaxClientId) \X (0..MaxPortId)

\* The ports of the System client (Timer and Announce), and a port as
\* create_port makes it with its default arguments.
SystemAttr(p) ==
    IF p = 0 THEN [caps |-> {"READ", "SUBS_READ", "WRITE"}, type |-> {}]
    ELSE [caps |-> {"READ", "SUBS_READ", "NO_EXPORT"}, type |-> {"MIDI_GENERIC"}]
DefaultAttr == [caps |-> RW_PORT, type |-> DEFAULT_PORT_TYPE]

\* a service whose user ports all are as create_port makes them by default,
\* and which has no client named "Midi Through"
InitPlain ==
    /\ through = None
    /\ pattr = [a \in Addrs |-> IF a[1] = 0 THEN SystemAttr(a[2]) ELSE DefaultAttr]

InitObject ==
    /\ pobj = [p \in 0..MaxPortId |-> NoPort]
    /\ handle_p = Some("ptr")
    /\ handle = Some("ptr")
    /\ torn = FALSE
    /\ nclose = 0
    /\ res = [s \in Slots |-> NoRes]
    /\ trav = [pc |-> "idle", last |-> None, seen |-> {}, revisit |-> FALSE]

InitWaiters ==
    /\ now = 0
    /\ readable = FALSE
    /\ writable = FALSE
    /\ pc = [d \in Dirs |-> "idle"]
    /\ tmo = [d \in Dirs |-> None]
    /\ until = None
    /\ remaining = None
    /\ fut = [d \in Dirs |-> NoFuture]
    /\ opid = [d \in Dirs |-> 0]
    /\ regs = [rd |-> None, wr |-> None]
    /\ lastRes = [d \in Dirs |-> None]
    /\ released = FALSE
    /\ lost = FALSE

\* The service after snd_seq_open: the System client 0 with its two ports, this
\* client without ports, and any other clients, each with a port 0.
InitService(ids) ==
    /\ client_id \in ids
    /\ clients \in {S \in SUBSET (0..MaxClientId) : 0 \in S /\ client_id \in S}
    /\ ports = {<<0, 0>>, <<0, 1>>}
                 \cup {<<c, 0>> : c \in clients \ {0, client_id}}

\* ---------------------------------------------------------------- lifecycle
\* A close that releases the handle and forgets to clear _handle_p.
close_body_keeps_pointer(op) ==
    /\ nclose' = nclose + 1
    /\ clients' = clients \ {client_id}
    /\ ports' = {a \in ports : a[1] # client_id}
    /\ res' = Latest("call", Result(op, "None", 0, "snd_seq_close"))
    /\ handle' = None
    /\ UNCHANGED handle_p

\* The body of SequencerClientBase.close, run by close() and by __del__.
close_body(op) ==
    IF handle_p = None
    THEN /\ res' = Latest("call", Result(op, "None", 0, "none"))
         /\ UNCHANGED <<handle_p, handle, nclose, clients, ports>>
    ELSE /\ IF Val(handle_p) # "NULL"
            THEN /\ nclose' = nclose + 1
                 /\ clients' = clients \ {client_id}
                 /\ ports' = {a \in ports : a[1] # client_id}
                 /\ res' = Latest("call", Result(op, "None", 0, "snd_seq_close"))
            ELSE /\ res' = Latest("call", Result(op, "None", 0, "none"))
                 /\ UNCHANGED <<nclose, clients, ports>>
         /\ handle_p' = None
         /\ handle' = None

\* SequencerClientBase.close
close ==
    /\ CanCall
    /\ close_body("close")
    /\ UNCHANGED <<cls, torn, client_id, faulty, trav, through, pattr, pobj>>
    /\ UNCHANGED waitVars

\* SequencerClientBase.__del__: the object is torn down once nothing refers to
\* it any more, so no call is in progress and no callback of it is registered.
__del__ ==
    /\ ~torn
    /\ Idle
    /\ regs.rd = None /\ regs.wr = None
    /\ close_body("__del__")
    /\ torn' = TRUE
    /\ UNCHANGED <<cls, client_id, faulty, trav, through, pattr, pobj>>
    /\ UNCHANGED waitVars

\* ------------------------------------------------- SequencerClientBase calls
Min(S) == CHOOSE x \in S : \A y \in S : x <= y

\* What snd_seq_event_input and snd_seq_event_output / snd_seq_drain_output may
\* answer on a non-blocking handle: would-block, a count, or an error.
IoResults == Statuses({-EAGAIN, 0, 1})

\* A call that changes nothing but its own outcome.
Returns(r) ==
    /\ res' = [res EXCEPT !["call"] = r]
    /\ UNCHANGED <<objVars, faulty, svcVars, trav, pobj>>
    /\ UNCHANGED waitVars

\* self._check_handle(); err = alsa.fn(self.handle); _check_alsa_error(err)
checked_call(op, fn, err) ==
    IF _check_handle THEN Result(op, "StateError", 0, "none")
    ELSE IF _check_alsa_error(err) THEN Result(op, "ServiceError", err, fn)
    ELSE Result(op, "None", 0, fn)

drop_input ==
    /\ cls = "Base" /\ CanCall
    /\ \E err \in Statuses({0}) :
         Returns(checked_call("drop_input", "snd_seq_drop_input", err))

drop_buffer ==
    /\ cls = "Base" /\ CanCall
    /\ \E err \in Statuses({0}) :
         Returns(checked_call("drop_buffer", "snd_seq_drop_input_buffer", err))

Base_drain_output ==
    /\ cls = "Base" /\ CanCall
    /\ \E err \in Statuses({-EAGAIN, 0}) :
         Returns(checked_call("drain_output", "snd_seq_drain_output", err))

drop_output ==
    /\ cls = "Base" /\ CanCall
    /\ \E err \in Statuses({0}) :
         Returns(checked_call("drop_output", "snd_seq_drop_output", err))

\* SequencerClientBase._event_input followed by the caller's error check: the
\* handle is handed to the binding without a _check_handle.
input_once(op, result) ==
    IF NoHandle THEN Result(op, "TypeError", 0, "snd_seq_event_input")
    ELSE IF _check_alsa_error(result)
         THEN Result(op, "ServiceError", result, "snd_seq_event_input")
    ELSE Result(op, "event", result, "snd_seq_event_input")

\* SequencerClientBase.event_input
Base_event_input ==
    /\ cls = "Base" /\ CanCall
    /\ \E result \in IoResults : Returns(input_once("event_input", result))

\* SequencerClientBase.event_output / event_output_buffer / event_output_direct:
\* all three submit with snd_seq_event_output and return its status.
checked_output(op, result) ==
    IF _check_handle THEN Result(op, "StateError", 0, "none")
    ELSE IF _check_alsa_error(result)
         THEN Result(op, "ServiceError", result, "snd_seq_event_output")
    ELSE Result(op, "return", result, "snd_seq_event_output")

Base_event_output ==
    /\ cls = "Base" /\ CanCall
    /\ \E result \in IoResults : Returns(checked_output("event_output", result))

event_output_buffer ==
    /\ cls = "Base" /\ CanCall
    /\ \E result \in IoResults :
         Returns(checked_output("event_output_buffer", result))

Base_event_output_direct ==
    /\ cls = "Base" /\ CanCall
    /\ \E result \in IoResults :
         Returns(checked_output("event_output_direct", result))

\* snd_seq_create_simple_port: the lowest free port id of this client, or an
\* error when none is left.
NewPortStatuses ==
    LET free == {p \in 0..MaxPortId : <<client_id, p>> \notin ports}
    IN  Statuses(IF free = {} THEN AllocErrors ELSE {Min(free)})

\* A Port that does not refer to the client that created it.
new_port_without_client(port) == [Port(client_id, port) EXCEPT !.client = None]

\* `return Port(self, port)`
new_port(port) == Port(client_id, port)

\* SequencerClientBase.create_port
create_port ==
    /\ cls = "Base" /\ CanCall
    /\ \E port \in NewPortStatuses :
         IF _check_handle
         THEN /\ res' = [res EXCEPT !["call"] =
                           Result("create_port", "StateError", 0, "none")]
              /\ UNCHANGED <<ports, pobj>>
         ELSE IF _check_alsa_error(port)
         THEN /\ res' = [res EXCEPT !["call"] =
                           Result("create_port", "ServiceError", port,
                                  "snd_seq_create_simple_port")]
              /\ UNCHANGED <<ports, pobj>>
         ELSE /\ res' = [res EXCEPT !["call"] =
                           [Result("create_port", "Port", port,
                                   "snd_seq_create_simple_port")
                              EXCEPT !.port = Some(new_port(port))]]
              /\ ports' = ports \cup {<<client_id, port>>}
              /\ pobj' = [pobj EXCEPT ![port] = new_port(port)]
    /\ UNCHANGED <<objVars, faulty, clients, through, pattr, trav>>
    /\ UNCHANGED waitVars

alloc_queue_ignores_name(named) == "snd_seq_alloc_queue"

\* `if name is not None: snd_seq_alloc_named_queue else: snd_seq_alloc_queue`
alloc_queue(named) ==
    IF named THEN "snd_seq_alloc_named_queue" ELSE "snd_seq_alloc_queue"

\* `return Queue(self, queue)`
new_queue(queue) == Queue(client_id, queue)

\* SequencerClientBase.create_queue; val is the status of the allocation and
\* arg.n tells whether a name was given (1) or not (0)
create_queue ==
    /\ cls = "Base" /\ CanCall
    /\ \E named \in BOOLEAN, queue \in Statuses(0..MaxPortId) :
         LET fn == alloc_queue(named)
             base == [Result("create_queue", "none", queue, "none") EXCEPT
                        !.arg = [NoArg EXCEPT !.n = IF named THEN 1 ELSE 0]]
         IN  Returns(IF _check_handle
                     THEN [base EXCEPT !.kind = "StateError", !.val = 0]
                     ELSE IF _check_alsa_error(queue)
                     THEN [base EXCEPT !.kind = "ServiceError", !.native = fn]
                     ELSE [base EXCEPT !.kind = "Queue", !.native = fn,
                                       !.queue = Some(new_queue(queue))])

\* ------------------------------------------------------------- Port objects
\* What Port.close does with the port object p (port.py): nothing when the
\* port is closed already; when the client's handle is closed the sequencer
\* has dropped the port with the client, and the call either fails with
\* StateError or just forgets the client; otherwise the port is deleted from
\* the sequencer and the reference to the client is dropped.  err is the
\* status of the deletion, keep whether a refused deletion leaves the
\* reference in place, fails whether a closed client makes the call fail.
\* The outcome: how the call ends, the native call made, the object after the
\* call, and whether the port was deleted from the sequencer.
port_close(p, err, keep, fails) ==
    LET port == pobj[p]
        forgot == [port EXCEPT !.client = None]
        out(kind, native, after, deleted) ==
            [kind |-> kind, native |-> native, port |-> after,
             deleted |-> deleted]
    IN  IF port.client = None THEN out("None", "none", port, FALSE)
        ELSE IF _check_handle
        THEN IF fails THEN out("StateError", "none", port, FALSE)
             ELSE out("None", "none", forgot, FALSE)
        ELSE IF _check_alsa_error(err)
        THEN out("ServiceError", "snd_seq_delete_port",
                 [(IF keep THEN port ELSE forgot) EXCEPT !.refused = TRUE],
                 FALSE)
        ELSE out("None", "snd_seq_delete_port",
                 [forgot EXCEPT !.ndelete = port.ndelete + 1], TRUE)

\* Port.close()
Port_close ==
    /\ cls = "Base"
    /\ \E p \in 0..MaxPortId, err \in Statuses({0}), keep \in BOOLEAN,
          fails \in BOOLEAN :
         LET o == port_close(p, err, keep, fails)
         IN  /\ pobj[p].st = "live"
             /\ res' = [res EXCEPT !["call"] =
                          Result("Port.close", o.kind, p, o.native)]
             /\ pobj' = [pobj EXCEPT ![p] = o.port]
             /\ ports' = IF o.deleted THEN ports \ {<<client_id, p>>}
                         ELSE ports
    /\ UNCHANGED <<objVars, faulty, clients, through, pattr, trav>>
    /\ UNCHANGED waitVars

\* Port.__del__: tearing the object down closes it; what close raises is not
\* propagated.
Port__del__ ==
    /\ cls = "Base"
    /\ \E p \in 0..MaxPortId, err \in Statuses({0}), keep \in BOOLEAN,
          fails \in BOOLEAN :
         LET o == port_close(p, err, keep, fails)
         IN  /\ pobj[p].st = "live"
             /\ res' = [res EXCEPT !["call"] =
                          Result("Port.__del__", "None", p, o.native)]
             /\ pobj' = [pobj EXCEPT ![p] = [o.port EXCEPT !.st = "torn"]]
             /\ ports' = IF o.deleted THEN ports \ {<<client_id, p>>}
                         ELSE ports
    /\ UNCHANGED <<objVars, faulty, clients, through, pattr, trav>>
    /\ UNCHANGED waitVars

\* ------------------------------------------------------ metadata snapshots
\* A name is a sequence of pieces; the piece "NUL" is a zero byte.
ClientName(c) ==
    IF c = 0 THEN <<"System">>
    ELSE IF through = Some(c) THEN <<"Midi Through">>
    ELSE <<"client">>

\* bytes handed to a native setter that takes a C string: cut at the first NUL
RECURSIVE CString(_)
CString(name) ==
    IF name = <<>> \/ Head(name) = "NUL" THEN <<>>
    ELSE <<Head(name)>> \o CString(Tail(name))

\* The service's record of client c (snd_seq_client_info_t), as
\* snd_seq_query_next_client fills it in.
SvcClientInfo(c) ==
    [client |-> c, name |-> ClientName(c),
     broadcast_filter |-> c % 2, error_bounce |-> (c \div 2) % 2]

\* ClientInfo._from_alsa (type, card_id, pid, num_ports and event_lost are
\* copied from the record and are left out here)
ClientInfo_from_alsa(info) ==
    [client_id |-> info.client,
     name |-> info.name,
     broadcast_filter |-> (info.broadcast_filter = 1),
     error_bounce |-> (info.broadcast_filter = 1)]

\* A conversion that does not set the client id of the native record.
ClientInfo_to_alsa_without_client(self) ==
    [client |-> -1,
     name |-> CString(self.name),
     broadcast_filter |-> IF self.broadcast_filter THEN 1 ELSE 0,
     error_bounce |-> IF self.error_bounce THEN 1 ELSE 0]

\* ClientInfo._to_alsa
ClientInfo_to_alsa(self) ==
    [client |-> self.client_id,
     name |-> CString(self.name),
     broadcast_filter |-> IF self.broadcast_filter THEN 1 ELSE 0,
     error_bounce |-> IF self.error_bounce THEN 1 ELSE 0]

\* PortInfo._from_alsa / PortInfo._to_alsa (alsa_midi/port.py): the address of
\* the port; the other fields of a port are left out.
PortInfo_from_alsa(info) == [client_id |-> info.client, port_id |-> info.port]
PortInfo_to_alsa(self) == [client |-> self.client_id, port |-> self.port_id]

\* Snapshots a caller may hold: the ones enumeration returns, and one built
\* with the public constructor.
ClientInfos ==
    {ClientInfo_from_alsa(SvcClientInfo(c)) : c \in 0..MaxClientId}
    \cup {[client_id |-> 1, name |-> <<"x", "NUL", "y">>,
           broadcast_filter |-> FALSE, error_bounce |-> TRUE]}
PortInfos == [client_id : 0..MaxClientId, port_id : 0..MaxPortId]

\* The `previous` argument of a query: absent, a number, or a snapshot.
Absent == [t |-> "None", n |-> -1, x |-> None]
Number(n) == [t |-> "int", n |-> n, x |-> None]
Snapshot(x) == [t |-> "info", n |-> -1, x |-> Some(x)]
PreviousClients ==
    {Absent} \cup {Number(n) : n \in 0..MaxClientId}
             \cup {Snapshot(x) : x \in ClientInfos}
PreviousPorts ==
    {Absent} \cup {Number(n) : n \in 0..MaxPortId}
             \cup {Snapshot(x) : x \in PortInfos}

\* ------------------------------------------------------------- the service
\* snd_seq_query_next_client: the client of smallest id above the cursor
NextClient(cursor) ==
    LET S == {c \in clients : c > cursor}
    IN  IF S = {} THEN None ELSE Some(Min(S))

\* snd_seq_query_next_port: the port of client c of smallest id above the cursor
NextPort(c, cursor) ==
    LET S == {a[2] : a \in {b \in ports : b[1] = c /\ b[2] > cursor}}
    IN  IF S = {} THEN None ELSE Some(Min(S))

\* What goes wrong in the service during one call: nothing (0), or an error
\* status when the service is faulty.
Faults == Statuses({0})

\* the status of snd_seq_query_next_client / snd_seq_query_next_port
query_status(next, fault) ==
    IF fault < 0 THEN fault ELSE IF next = None THEN -ENOENT ELSE 0

\* ------------------------------------------------------------ the queries
\* A test that takes every negative status for the end of the enumeration.
exhausted_on_any_error(err) == err < 0

\* `err == -errno.ENOENT`: the cursor is exhausted
exhausted(err) == err = -ENOENT

\* the cursor a non-snapshot `previous` stands for: -1 when absent
cursor_of(previous) == IF previous.t = "None" THEN -1 ELSE previous.n

\* SequencerClientBase.query_next_client; merr is the status of the record
\* allocation and fault what goes wrong in the service.
query_next_client(previous, merr, fault) ==
    LET base == [Result("query_next_client", "none", 0, "none") EXCEPT
                   !.arg = [t |-> previous.t,
                            c |-> IF previous.t = "info"
                                  THEN Val(previous.x).client_id ELSE -1,
                            n |-> previous.n]]
        info == IF previous.t = "info"
                THEN ClientInfo_to_alsa(Val(previous.x))
                ELSE [client |-> cursor_of(previous)]
        next == NextClient(info.client)
        err == query_status(next, fault)
        called == [base EXCEPT !.native = "snd_seq_query_next_client",
                               !.allocs = 1, !.frees = 1,
                               !.status = Some(err),
                               !.sent = Some(info.client)]
    IN  IF _check_handle THEN [base EXCEPT !.kind = "StateError"]
        ELSE IF _check_alsa_error(merr)
             THEN [base EXCEPT !.kind = "ServiceError", !.val = merr]
        ELSE IF exhausted(err) THEN [called EXCEPT !.kind = "None"]
        ELSE IF _check_alsa_error(err)
             THEN [called EXCEPT !.kind = "ServiceError", !.val = err]
        ELSE [called EXCEPT !.kind = "ClientInfo",
                !.cinfo = Some(ClientInfo_from_alsa(SvcClientInfo(Val(next))))]

Call_query_next_client ==
    /\ cls = "Base" /\ CanCall
    /\ \E previous \in PreviousClients, merr \in AllocStatuses, fault \in Faults :
         Returns(query_next_client(previous, merr, fault))

\* A query that does not compare the snapshot's client with the requested one.
mismatch_unchecked(client, previous) == FALSE

\* `not previous.client_id == client_id`: the snapshot is of another client
mismatch(client, previous) ==
    previous.t = "info" /\ ~(Val(previous.x).client_id = client)

\* SequencerClientBase.query_next_port
query_next_port(client, previous, merr, fault) ==
    LET base == [Result("query_next_port", "none", 0, "none") EXCEPT
                   !.req = client,
                   !.arg = [t |-> previous.t,
                            c |-> IF previous.t = "info"
                                  THEN Val(previous.x).client_id ELSE -1,
                            n |-> IF previous.t = "info"
                                  THEN Val(previous.x).port_id ELSE previous.n]]
        info == IF previous.t = "info"
                THEN PortInfo_to_alsa(Val(previous.x))
                ELSE [client |-> client, port |-> cursor_of(previous)]
        next == NextPort(info.client, info.port)
        err == query_status(next, fault)
        called == [base EXCEPT !.native = "snd_seq_query_next_port",
                               !.allocs = 1, !.frees = 1,
                               !.status = Some(err),
                               !.sentc = Some(info.client),
                               !.sent = Some(info.port)]
    IN  IF _check_handle THEN [base EXCEPT !.kind = "StateError"]
        ELSE IF mismatch(client, previous)
             THEN [base EXCEPT !.kind = "ValueError"]
        ELSE IF _check_alsa_error(merr)
             THEN [base EXCEPT !.kind = "ServiceError", !.val = merr]
        ELSE IF exhausted(err) THEN [called EXCEPT !.kind = "None"]
        ELSE IF _check_alsa_error(err)
             THEN [called EXCEPT !.kind = "ServiceError", !.val = err]
        ELSE [called EXCEPT !.kind = "PortInfo",
                !.pinfo = Some(PortInfo_from_alsa(
                              [client |-> info.client, port |-> Val(next)]))]

Call_query_next_port ==
    /\ cls = "Base" /\ CanCall
    /\ \E client \in 0..MaxClientId, previous \in PreviousPorts,
          merr \in AllocStatuses, fault \in Faults :
         Returns(query_next_port(client, previous, merr, fault))

\* ----------------------------------------------------- a caller's traversal
\* The loop a caller runs over the clients: query_next_client(None), then
\* query_next_client(previous=<the last result>) until it answers None.
Traversed(r) ==
    IF r.kind = "ClientInfo"
    THEN [pc |-> "running",
          last |-> r.cinfo,
          seen |-> trav.seen \cup {Val(r.cinfo).client_id},
          revisit |-> trav.revisit \/ Val(r.cinfo).client_id \in trav.seen]
    ELSE [trav EXCEPT !.pc = IF r.kind = "None" THEN "done" ELSE "raised"]

TraverseStart ==
    /\ cls = "Base" /\ CanCall
    /\ trav.pc = "idle"
    /\ \E merr \in AllocStatuses, fault \in Faults :
         LET r == query_next_client(Absent, merr, fault)
         IN  /\ res' = [res EXCEPT !["call"] = r]
             /\ trav' = Traversed(r)
    /\ UNCHANGED <<objVars, faulty, svcVars, pobj>>
    /\ UNCHANGED waitVars

TraverseNext ==
    /\ cls = "Base" /\ CanCall
    /\ trav.pc = "running"
    /\ \E merr \in AllocStatuses, fault \in Faults :
         LET r == query_next_client(Snapshot(Val(trav.last)), merr, fault)
         IN  /\ res' = [res EXCEPT !["call"] = r]
             /\ trav' = Traversed(r)
    /\ UNCHANGED <<objVars, faulty, svcVars, pobj>>
    /\ UNCHANGED waitVars

\* ------------------------------------------------------------- list_ports
\* The arguments of list_ports.  input, output and the other switches are
\* looked at for their truth only (None counts as False); type is a mask, the
\* empty one meaning no type filter; sort is True, False or a callable.
ListArgs ==
    [input : BOOLEAN, output : BOOLEAN,
     type : {{}, {"MIDI_GENERIC"}, {"MIDI_GENERIC", "SOFTWARE"}},
     include_system : BOOLEAN, include_midi_through : BOOLEAN,
     include_no_export : BOOLEAN, only_connectable : BOOLEAN,
     sort : {"True", "False", "callable"}]

\* The arguments explored: every combination of filters with the default
\* sort, and every sort with nothing excluded by client or by NO_EXPORT.
ListArgSets ==
    {a \in ListArgs :
        \/ a.sort = "True"
        \/ a.include_system /\ a.include_midi_through /\ a.include_no_export}

\* the record snd_seq_query_next_port fills in for the port at address a
SvcPortInfo(a) ==
    [client |-> a[1], port |-> a[2],
     capability |-> pattr[a].caps, type |-> pattr[a].type]

\* the inner loop: the ports of client c above the cursor, in the order
\* snd_seq_query_next_port returns them
RECURSIVE PortsAbove(_, _)
PortsAbove(c, cursor) ==
    LET next == NextPort(c, cursor)
    IN  IF next = None THEN <<>>
        ELSE <<SvcPortInfo(<<c, Val(next)>>)>> \o PortsAbove(c, Val(next))

\* An outer loop without the test for the System client.
skip_client_keeps_system(c, args) ==
    ClientName(c) = <<"Midi Through">> /\ ~args.include_midi_through

\* `if client_id == 0 and not include_system: continue` and
\* `if client_name == "Midi Through" and not include_midi_through: continue`
skip_client(c, args) ==
    \/ c = 0 /\ ~args.include_system
    \/ ClientName(c) = <<"Midi Through">> /\ ~args.include_midi_through

\* A filter whose input branch tests SUBS_WRITE, as its output branch does.
keep_port_input_tests_sub_write(info, args) ==
    LET can_write == "WRITE" \in info.capability
        can_sub_write == "SUBS_WRITE" \in info.capability
        can_read == "READ" \in info.capability
        can_sub_read == "SUBS_READ" \in info.capability
    IN  /\ ~(args.type # {} /\ (info.type \cap args.type) # args.type)
        /\ ~("NO_EXPORT" \in info.capability /\ ~args.include_no_export)
        /\ args.output =>
              (can_write /\ ~(args.only_connectable /\ ~can_sub_write))
        /\ args.input =>
              (can_read /\ ~(args.only_connectable /\ ~can_sub_write))
        /\ (~args.input /\ ~args.output) =>
              IF args.only_connectable
              THEN (can_read /\ can_sub_read) \/ (can_write /\ can_sub_write)
              ELSE ~(~can_read /\ ~can_write)

\* A filter that, with neither direction requested, asks for a direction and
\* for a subscription capability without pairing them.
keep_port_unpaired(info, args) ==
    LET can_write == "WRITE" \in info.capability
        can_sub_write == "SUBS_WRITE" \in info.capability
        can_read == "READ" \in info.capability
        can_sub_read == "SUBS_READ" \in info.capability
    IN  /\ ~(args.type # {} /\ (info.type \cap args.type) # args.type)
        /\ ~("NO_EXPORT" \in info.capability /\ ~args.include_no_export)
        /\ args.output =>
              (can_write /\ ~(args.only_connectable /\ ~can_sub_write))
        /\ args.input =>
              (can_read /\ ~(args.only_connectable /\ ~can_sub_read))
        /\ (~args.input /\ ~args.output) =>
              IF args.only_connectable
              THEN (can_read \/ can_write) /\ (can_sub_read \/ can_sub_write)
              ELSE ~(~can_read /\ ~can_write)

\* A filter that accepts a port having any bit of the requested type.
keep_port_any_type_bit(info, args) ==
    LET can_write == "WRITE" \in info.capability
        can_sub_write == "SUBS_WRITE" \in info.capability
        can_read == "READ" \in info.capability
        can_sub_read == "SUBS_READ" \in info.capability
    IN  /\ ~(args.type # {} /\ (info.type \cap args.type) = {})
        /\ ~("NO_EXPORT" \in info.capability /\ ~args.include_no_export)
        /\ args.output =>
              (can_write /\ ~(args.only_connectable /\ ~can_sub_write))
        /\ args.input =>
              (can_read /\ ~(args.only_connectable /\ ~can_sub_read))
        /\ (~args.input /\ ~args.output) =>
              IF args.only_connectable
              THEN (can_read /\ can_sub_read) \/ (can_write /\ can_sub_write)
              ELSE ~(~can_read /\ ~can_write)

\* the type, NO_EXPORT and direction filters on one port: TRUE when no
\* `continue` is taken
keep_port(info, args) ==
    LET can_write == "WRITE" \in info.capability
        can_sub_write == "SUBS_WRITE" \in info.capability
        can_read == "READ" \in info.capability
        can_sub_read == "SUBS_READ" \in info.capability
    IN  /\ ~(args.type # {} /\ (info.type \cap args.type) # args.type)
        /\ ~("NO_EXPORT" \in info.capability /\ ~args.include_no_export)
        /\ args.output =>
              (can_write /\ ~(args.only_connectable /\ ~can_sub_write))
        /\ args.input =>
              (can_read /\ ~(args.only_connectable /\ ~can_sub_read))
        /\ (~args.input /\ ~args.output) =>
              IF args.only_connectable
              THEN (can_read /\ can_sub_read) \/ (can_write /\ can_sub_write)
              ELSE ~(~can_read /\ ~can_write)

\* `port_info.client_name = client_name; result.append(port_info)`
ListEntry(info, name) ==
    [client_id |-> info.client, port_id |-> info.port,
     capability |-> info.capability, type |-> info.type,
     client_name |-> name]

\* the ports of client c the inner loop appends
KeptPorts(c, args) ==
    LET all == PortsAbove(c, -1)
        kept == SelectSeq(all, LAMBDA info : keep_port(info, args))
    IN  [i \in 1..Len(kept) |-> ListEntry(kept[i], ClientName(c))]

\* the outer loop: the clients above the cursor, in the order
\* snd_seq_query_next_client returns them
RECURSIVE Enumerate(_, _)
Enumerate(cursor, args) ==
    LET next == NextClient(cursor)
    IN  IF next = None THEN <<>>
        ELSE (IF skip_client(Val(next), args) THEN <<>>
              ELSE KeptPorts(Val(next), args))
             \o Enumerate(Val(next), args)

\* The choice of the sort key.  The second `if` has the `else`, so what the
\* first `if` chose is replaced whenever the second condition is false.
sort_key(args) ==
    IF args.sort = "callable" THEN "callable"
    ELSE IF args.sort = "True"
    THEN LET first == IF args.input /\ ~args.output THEN "READ" ELSE "unbound"
         IN  IF args.output /\ ~args.input THEN "WRITE" ELSE "RW"
    ELSE "none"

\* port.get_port_info_sort_key(table) (alsa_midi/port.py): the rank a
\* preferred-types table gives a port.  The tables stand for
\* READ_PORT_PREFERRED_TYPES, WRITE_PORT_PREFERRED_TYPES and
\* RW_PORT_PREFERRED_TYPES; a caller's key here ranks by descending port id.
KeyOf(table, e) ==
    CASE table = "READ" -> IF "SOFTWARE" \in e.type THEN 0 ELSE 1
      [] table = "WRITE" -> IF "SOFTWARE" \in e.type THEN 1 ELSE 0
      [] table = "RW" -> IF "MIDI_GENERIC" \in e.type THEN 0 ELSE 1
      [] table = "callable" -> 0 - e.port_id
      [] OTHER -> 0

\* list.sort(key=...): a stable sort
RECURSIVE StableSort(_, _)
StableSort(seq, table) ==
    IF seq = <<>> THEN <<>>
    ELSE LET x == seq[Len(seq)]
             sorted == StableSort(SubSeq(seq, 1, Len(seq) - 1), table)
             upto == SelectSeq(sorted,
                        LAMBDA e : KeyOf(table, e) <= KeyOf(table, x))
             above == SelectSeq(sorted,
                        LAMBDA e : KeyOf(table, e) > KeyOf(table, x))
         IN  upto \o <<x>> \o above

\* SequencerClientBase.list_ports.  merr1 and merr2 are the statuses of the
\* two record allocations and fault what goes wrong in the first query.
list_ports(args, merr1, merr2, fault) ==
    LET base == Result("list_ports", "none", 0, "none")
        key == sort_key(args)
        found == Enumerate(-1, args)
    IN  IF _check_handle THEN [base EXCEPT !.kind = "StateError"]
        ELSE IF _check_alsa_error(merr1)
        THEN [base EXCEPT !.kind = "ServiceError", !.val = merr1]
        ELSE IF _check_alsa_error(merr2)
        THEN [base EXCEPT !.kind = "ServiceError", !.val = merr2,
                          !.allocs = 1, !.frees = 1]
        ELSE IF _check_alsa_error(fault)
        THEN [base EXCEPT !.kind = "ServiceError", !.val = fault,
                          !.native = "snd_seq_query_next_client",
                          !.allocs = 2, !.frees = 2]
        ELSE [base EXCEPT !.kind = "list",
                          !.native = "snd_seq_query_next_client",
                          !.allocs = 2, !.frees = 2,
                          !.largs = Some(args),
                          !.table = key,
                          !.list = IF key = "none" THEN found
                                   ELSE StableSort(found, key)]

\* A call of list_ports.  The enumeration changes nothing, so a second call
\* right after one would only repeat it: the caller does something else first.
Call_list_ports ==
    /\ cls = "Base" /\ CanCall
    /\ res["call"].op # "list_ports"
    /\ \E args \in ListArgSets, merr1 \in AllocStatuses,
          merr2 \in AllocStatuses, fault \in Faults :
         Returns(list_ports(args, merr1, merr2, fault))

\* -------------------------------------------------------- port information
\* SequencerClientBase.get_port_info: no _check_handle; the record is freed on
\* every path after its allocation.
get_port_info ==
    /\ cls = "Base" /\ CanCall
    /\ \E asint \in BOOLEAN, c \in 0..MaxClientId, port_id \in 0..MaxPortId,
          merr \in AllocStatuses, fault \in Faults :
         LET client == IF asint THEN client_id ELSE c
             fn == IF client = client_id THEN "snd_seq_get_port_info"
                   ELSE "snd_seq_get_any_port_info"
             err == IF fault < 0 THEN fault
                    ELSE IF <<client, port_id>> \in ports THEN 0 ELSE -ENOENT
             base == [Result("get_port_info", "none", 0, "none") EXCEPT
                        !.req = client]
             called == [base EXCEPT !.native = fn, !.allocs = 1, !.frees = 1]
         IN  Returns(
               IF _check_alsa_error(merr)
               THEN [base EXCEPT !.kind = "ServiceError", !.val = merr]
               ELSE IF NoHandle THEN [called EXCEPT !.kind = "TypeError"]
               ELSE IF _check_alsa_error(err)
               THEN [called EXCEPT !.kind = "ServiceError", !.val = err]
               ELSE [called EXCEPT !.kind = "PortInfo",
                       !.pinfo = Some(PortInfo_from_alsa(
                                     [client |-> client, port |-> port_id]))])

\* SequencerClientBase.set_port_info: no _check_handle; the record that
\* info._to_alsa() allocates is not freed here.
set_port_info ==
    /\ cls = "Base" /\ CanCall
    /\ \E port_id \in 0..MaxPortId, merr \in AllocStatuses, fault \in Faults :
         LET err == IF fault < 0 THEN fault
                    ELSE IF <<client_id, port_id>> \in ports THEN 0 ELSE -ENOENT
             base == Result("set_port_info", "none", 0, "none")
             called == [base EXCEPT !.native = "snd_seq_set_port_info",
                                    !.allocs = 1]
         IN  Returns(
               IF _check_alsa_error(merr)
               THEN [base EXCEPT !.kind = "ServiceError", !.val = merr]
               ELSE IF NoHandle THEN [called EXCEPT !.kind = "TypeError"]
               ELSE IF _check_alsa_error(err)
               THEN [called EXCEPT !.kind = "ServiceError", !.val = err]
               ELSE [called EXCEPT !.kind = "None"])

\* ------------------------------------------------------------ subscriptions
\* The arguments of subscribe_port / unsubscribe_port: sender and dest are
\* addresses (client, port); queue is None, a queue number or a Queue object
\* (q.t says which, q.n is the number or the queue_id of the object); the three
\* flags are booleans.
SubQueues == {[t |-> "None", n |-> 0], [t |-> "int", n |-> 0],
              [t |-> "Queue", n |-> 1]}
SubFlags == {<<FALSE, FALSE, FALSE>>, <<TRUE, FALSE, FALSE>>,
             <<FALSE, TRUE, FALSE>>, <<FALSE, FALSE, TRUE>>,
             <<TRUE, TRUE, TRUE>>}
SubArgs ==
    {[sender |-> <<0, 1>>, dest |-> <<1, 0>>, queue |-> q,
      exclusive |-> f[1], time_update |-> f[2], time_real |-> f[3]] :
        q \in SubQueues, f \in SubFlags}

\* queue_id = queue if queue is None or an int, else queue.queue_id
queue_id_of(q) ==
    IF q.t = "None" THEN None
    ELSE IF q.t = "int" THEN Some(q.n)
    ELSE Some(Queue(client_id, q.n).queue_id)

\* int(flag)
int_of(b) == IF b THEN 1 ELSE 0

\* a descriptor as snd_seq_port_subscribe_malloc hands it out: nothing set
NoSub ==
    [sender |-> None, dest |-> None, queue |-> None,
     exclusive |-> 0, time_update |-> 0, time_real |-> 0]

sub_descriptor_sets_queue_always(args) ==
    [NoSub EXCEPT !.sender = Some(args.sender), !.dest = Some(args.dest),
                  !.queue = (IF queue_id_of(args.queue) = None THEN Some(0)
                             ELSE queue_id_of(args.queue)),
                  !.exclusive = int_of(args.exclusive),
                  !.time_update = int_of(args.time_update),
                  !.time_real = int_of(args.time_real)]

\* the setters _subunsub_port calls on the descriptor before the service call:
\* set_queue only when queue_id is not None
sub_descriptor(args) ==
    [NoSub EXCEPT !.sender = Some(args.sender), !.dest = Some(args.dest),
                  !.queue = queue_id_of(args.queue),
                  !.exclusive = int_of(args.exclusive),
                  !.time_update = int_of(args.time_update),
                  !.time_real = int_of(args.time_real)]

\* SequencerClientBase._subunsub_port: the descriptor is allocated, filled,
\* handed to func with the handle, and freed in the finally clause.
_subunsub_port(op, func, args, merr, err) ==
    LET base == [Result(op, "none", 0, "none") EXCEPT !.sargs = Some(args)]
        called == [base EXCEPT !.native = func, !.allocs = 1, !.frees = 1,
                               !.sub = Some(sub_descriptor(args))]
    IN  IF _check_alsa_error(merr)
        THEN [base EXCEPT !.kind = "ServiceError", !.val = merr]
        ELSE IF _check_alsa_error(err)
        THEN [called EXCEPT !.kind = "ServiceError", !.val = err]
        ELSE [called EXCEPT !.kind = "None"]

subscribe_port ==
    /\ cls = "Base" /\ CanCall
    /\ \E args \in SubArgs, merr \in AllocStatuses, err \in Faults :
         Returns(IF _check_handle
                 THEN Result("subscribe_port", "StateError", 0, "none")
                 ELSE _subunsub_port("subscribe_port", "snd_seq_subscribe_port",
                                     args, merr, err))

unsubscribe_port ==
    /\ cls = "Base" /\ CanCall
    /\ \E args \in SubArgs, merr \in AllocStatuses, err \in Faults :
         Returns(IF _check_handle
                 THEN Result("unsubscribe_port", "StateError", 0, "none")
                 ELSE _subunsub_port("unsubscribe_port",
                                     "snd_seq_unsubscribe_port",
                                     args, merr, err))

\* ------------------------------------------------------------ the waiters
\* Both waiters run the same protocol around one non-blocking native call:
\* pc[d] is "idle" (no operation), "created" (event loop: the coroutine of an
\* output operation exists and has not run yet), "call" (about to make the
\* native call), "check" (would-block seen, about to look at the deadline),
\* "poll" (blocked in poll) or "suspended" (event loop: awaiting the future).
OutputOps == {"drain_output", "event_output", "event_output_direct"}

NativeOf(d, op) ==
    IF d = "in" THEN "snd_seq_event_input"
    ELSE IF op = "drain_output" THEN "snd_seq_drain_output"
    ELSE "snd_seq_event_output"

\* A waiter whose poll sets are both registered for both interests.
Ready_for_any_interest(d) == readable \/ writable

\* the descriptor is ready for direction d
Ready(d) == IF d = "in" THEN readable ELSE writable

\* A deadline set for every timeout that is not None, the timeout 0 included.
Deadline_unless_none(timeout, t) ==
    IF timeout # None THEN Some(t + Val(timeout)) ELSE None

\* `if timeout: until = time.monotonic() + timeout else: until = None`
Deadline(timeout, t) == IF Truthy(timeout) THEN Some(t + Val(timeout)) ELSE None

\* A loop that forgets the deadline when it computes the limit of the poll.
Remaining_without_limit(deadline, t) == None

\* `if until is not None: remaining = until - time.monotonic()
\*  else: remaining = None`
Remaining(deadline, t) == IF deadline # None THEN Some(Val(deadline) - t) ELSE None

\* `remaining <= 0` (looked at only when there is a deadline)
Expired(rem) == rem # None /\ Val(rem) <= 0

\* A loop that retries after every negative status.
WouldBlock_any_error(result) == result < 0

\* `result != -errno.EAGAIN` is what ends the retry loop
WouldBlock(result) == result = -EAGAIN

\* the operation of direction d has started: its outcome is pending
Begun(op) ==
    [NoRes EXCEPT !.op = op, !.closed = (handle_p = None), !.kind = "pending"]

\* `_check_alsa_error(result); return event` / `return result`, for the
\* operation whose record is rec
Settled(rec, d, result) ==
    IF _check_alsa_error(result)
    THEN [rec EXCEPT !.kind = "ServiceError", !.val = result,
                     !.native = NativeOf(d, rec.op)]
    ELSE [rec EXCEPT !.kind = IF d = "in" THEN "event" ELSE "return",
                     !.val = result, !.native = NativeOf(d, rec.op)]

\* the native call cannot be made: self.handle is None
Refused(rec, d) ==
    [rec EXCEPT !.kind = "TypeError", !.native = NativeOf(d, rec.op)]

\* `return None` once the deadline has passed
TimedOut(rec) == [rec EXCEPT !.kind = "None"]

\* ---------------------------------------------------------- SequencerClient
\* the entry of event_input / _event_output_wait with `timeout`
Sync_begin(d, op, timeout) ==
    /\ Truthy(timeout) => now + Val(timeout) <= MaxClock
    /\ until' = Deadline(timeout, now)
    /\ tmo' = [x \in Dirs |-> IF x = d THEN timeout ELSE None]
    /\ pc' = [pc EXCEPT ![d] = "call"]
    /\ res' = Latest(d, Begun(op))
    /\ lastRes' = [x \in Dirs |-> None]
    /\ remaining' = None

\* SequencerClient.event_input(timeout), up to the loop
Sync_event_input ==
    /\ cls = "Sync" /\ CanCall
    /\ \E timeout \in Timeouts : Sync_begin("in", "event_input", timeout)
    /\ UNCHANGED <<objVars, faulty, svcVars, trav, pobj>>
    /\ UNCHANGED <<now, readable, writable, fut, opid, regs, released, lost>>

\* SequencerClient.drain_output / event_output / event_output_direct:
\* _check_handle, then _event_output_wait(func) without a timeout
Sync_output ==
    /\ cls = "Sync" /\ CanCall
    /\ \E op \in OutputOps :
         IF _check_handle
         THEN /\ res' = Latest("out", [Begun(op) EXCEPT !.kind = "StateError"])
              /\ tmo' = [x \in Dirs |-> None]
              /\ lastRes' = [x \in Dirs |-> None]
              /\ UNCHANGED <<pc, until, remaining>>
         ELSE Sync_begin("out", op, None)
    /\ UNCHANGED <<objVars, faulty, svcVars, trav, pobj>>
    /\ UNCHANGED <<now, readable, writable, fut, opid, regs, released, lost>>

\* SequencerClient._event_output_wait(func, timeout) called by itself, with
\* func = partial(self._event_output, ...)
Sync__event_output_wait ==
    /\ cls = "Sync" /\ CanCall
    /\ \E timeout \in Timeouts :
         Sync_begin("out", "_event_output_wait", timeout)
    /\ UNCHANGED <<objVars, faulty, svcVars, trav, pobj>>
    /\ UNCHANGED <<now, readable, writable, fut, opid, regs, released, lost>>

\* the call returns or raises: its local variables are gone
Sync_end(d, r) ==
    /\ res' = [res EXCEPT ![d] = r]
    /\ pc' = [pc EXCEPT ![d] = "idle"]
    /\ until' = None
    /\ remaining' = None

\* `result, event = self._event_input()` / `result = func()` and the test
\* that follows it
Sync_call(d) ==
    /\ cls = "Sync" /\ pc[d] = "call"
    /\ IF NoHandle
       THEN /\ Sync_end(d, Refused(res[d], d))
            /\ UNCHANGED lastRes
       ELSE \E result \in IoResults :
            /\ lastRes' = [lastRes EXCEPT ![d] = Some(result)]
            /\ IF WouldBlock(result)
               THEN /\ pc' = [pc EXCEPT ![d] = "check"]
                    /\ res' = [res EXCEPT ![d].native = NativeOf(d, res[d].op)]
                    /\ UNCHANGED <<until, remaining>>
               ELSE Sync_end(d, Settled(res[d], d, result))
    /\ UNCHANGED <<objVars, faulty, svcVars, trav, pobj>>
    /\ UNCHANGED <<now, readable, writable, tmo, fut, opid, regs, released, lost>>

\* the deadline test after a would-block, and the entry into poll
Sync_check(d) ==
    /\ cls = "Sync" /\ pc[d] = "check"
    /\ LET rem == Remaining(until, now)
       IN  IF Expired(rem)
           THEN Sync_end(d, TimedOut(res[d]))
           ELSE /\ remaining' = rem
                /\ pc' = [pc EXCEPT ![d] = "poll"]
                /\ UNCHANGED <<res, until>>
    /\ UNCHANGED <<objVars, faulty, svcVars, trav, pobj>>
    /\ UNCHANGED <<now, readable, writable, tmo, fut, opid, regs, lastRes,
                   released, lost>>

\* self._read_poll.poll(remaining) / self._write_poll.poll(remaining) returns:
\* the descriptor is ready for the direction of the poll set, or the poll had
\* a time limit, which ends it at some moment.
Sync_poll(d) ==
    /\ cls = "Sync" /\ pc[d] = "poll"
    /\ Ready(d) \/ remaining # None
    /\ pc' = [pc EXCEPT ![d] = "call"]
    /\ UNCHANGED <<objVars, faulty, svcVars, trav, pobj, res>>
    /\ UNCHANGED <<now, readable, writable, tmo, until, remaining, fut,
                   opid, regs, lastRes, released, lost>>

\* ----------------------------------------------------- AsyncSequencerClient
\* The callback an operation registers: its direction, the number of the
\* operation and the operation (which fixes the native call it retries).
Callback(d, id, op) == [d |-> d, id |-> id, op |-> op]

\* loop.add_reader(fd, cb): the callback replaces the one registered for
\* reading, if any
add_reader(r, cb) == [r EXCEPT !.rd = Some(cb)]

\* loop.remove_reader(fd)
remove_reader(r) == [r EXCEPT !.rd = None]

\* the callback the code registers for an operation of direction d, and the
\* removal its callback makes
register(d, r, cb) == add_reader(r, cb)
unregister(d, r) == remove_reader(r)

\* loop.create_future()
create_future == [NoFuture EXCEPT !.st = "pending"]

\* fut.set_result(result) / fut.set_exception(err), called by the callback cb
\* while the registrations of the event loop are r
set_result(r, cb, result) ==
    [st |-> "result", val |-> result, reg |-> (r.rd = Some(cb))]
set_exception(r, cb) ==
    [st |-> "exception", val |-> 0, reg |-> (r.rd = Some(cb))]

\* the callback cb belongs to the operation now suspended in its direction
Current(cb) == pc[cb.d] = "suspended" /\ opid[cb.d] = cb.id

\* The native call of an operation of direction d. drain_output binds
\* self.handle into its partial when the operation is created; the others
\* read self.handle when they make the call.
BoundHandle(op) == op = "drain_output"

\* The timer of asyncio.wait_for is not measured against the model's clock, so
\* every positive timeout behaves as the timeout 1 does.
AsyncTimeouts == {t \in Timeouts : t = None \/ Val(t) <= 1}

\* The first part of AsyncSequencerClient.event_input and of
\* _event_output_wait, up to the await: the native call, and on would-block
\* the future and the registration of the callback.  rec is the record of the
\* operation and id its number.
Async_first(d, op, rec, id) ==
    IF ~BoundHandle(op) /\ NoHandle
    THEN /\ res' = [res EXCEPT ![d] = Refused(rec, d)]
         /\ pc' = [pc EXCEPT ![d] = "idle"]
         /\ lastRes' = [lastRes EXCEPT ![d] = None]
         /\ UNCHANGED <<fut, regs, released, lost>>
    ELSE \E result \in IoResults :
         /\ lastRes' = [lastRes EXCEPT ![d] = Some(result)]
         /\ released' = (released \/ handle_p = None)
         /\ UNCHANGED lost
         /\ IF WouldBlock(result)
            THEN /\ fut' = [fut EXCEPT ![d] = create_future]
                 /\ regs' = register(d, regs, Callback(d, id, op))
                 /\ pc' = [pc EXCEPT ![d] = "suspended"]
                 /\ res' = [res EXCEPT ![d] =
                               [rec EXCEPT !.native = NativeOf(d, op)]]
            ELSE /\ res' = [res EXCEPT ![d] = Settled(rec, d, result)]
                 /\ pc' = [pc EXCEPT ![d] = "idle"]
                 /\ UNCHANGED <<fut, regs>>

\* AsyncSequencerClient.event_input(timeout), run up to its await
Async_event_input ==
    /\ cls = "Async" /\ ~torn
    /\ pc["in"] = "idle" /\ opid["in"] < MaxOps
    /\ opid' = [opid EXCEPT !["in"] = @ + 1]
    /\ \E timeout \in AsyncTimeouts : tmo' = [tmo EXCEPT !["in"] = timeout]
    /\ Async_first("in", "event_input", Begun("event_input"), opid["in"] + 1)
    /\ UNCHANGED <<objVars, faulty, svcVars, trav, pobj>>
    /\ UNCHANGED <<now, readable, writable, until, remaining>>

\* AsyncSequencerClient.drain_output / event_output / event_output_direct:
\* plain functions that check the handle, build func and return the coroutine
\* of _event_output_wait(func), which has not run yet
Async_output ==
    /\ cls = "Async" /\ ~torn
    /\ pc["out"] = "idle" /\ opid["out"] < MaxOps
    /\ \E op \in OutputOps :
         IF _check_handle
         THEN /\ res' = [res EXCEPT !["out"] =
                           [Begun(op) EXCEPT !.kind = "StateError"]]
              /\ UNCHANGED <<pc, opid>>
         ELSE /\ res' = [res EXCEPT !["out"] = Begun(op)]
              /\ pc' = [pc EXCEPT !["out"] = "created"]
              /\ opid' = [opid EXCEPT !["out"] = @ + 1]
    /\ tmo' = [tmo EXCEPT !["out"] = None]
    /\ lastRes' = [lastRes EXCEPT !["out"] = None]
    /\ UNCHANGED <<objVars, faulty, svcVars, trav, pobj>>
    /\ UNCHANGED <<now, readable, writable, until, remaining, fut, regs,
                   released, lost>>

\* AsyncSequencerClient._event_output_wait(func, timeout) called by itself,
\* with func = partial(self._event_output, ...): the coroutine is created
Async__event_output_wait ==
    /\ cls = "Async" /\ ~torn
    /\ pc["out"] = "idle" /\ opid["out"] < MaxOps
    /\ \E timeout \in AsyncTimeouts : tmo' = [tmo EXCEPT !["out"] = timeout]
    /\ res' = [res EXCEPT !["out"] = Begun("_event_output_wait")]
    /\ pc' = [pc EXCEPT !["out"] = "created"]
    /\ opid' = [opid EXCEPT !["out"] = @ + 1]
    /\ lastRes' = [lastRes EXCEPT !["out"] = None]
    /\ UNCHANGED <<objVars, faulty, svcVars, trav, pobj>>
    /\ UNCHANGED <<now, readable, writable, until, remaining, fut, regs,
                   released, lost>>

\* the coroutine of _event_output_wait is awaited and runs up to its await
Async_output_run ==
    /\ cls = "Async" /\ pc["out"] = "created"
    /\ Async_first("out", res["out"].op, res["out"], opid["out"])
    /\ UNCHANGED <<objVars, faulty, svcVars, trav, pobj>>
    /\ UNCHANGED <<now, readable, writable, tmo, until, remaining, opid>>

\* SequencerClientBase._event_input called by the callback cb: with a result
\* that is not negative the native call has taken an event from the service
event_read(cb, result) == cb.d = "in" /\ result >= 0

\* reader_cb / writer_cb, which the event loop calls when the descriptor is
\* ready for reading: the retry of the native call.  When the retry raises,
\* the except clause resolves the future with the exception and the finally
\* clause then removes the reader registration; when it returns a result other
\* than would-block, the finally clause removes the registration and the
\* statement after it resolves the future; when it would block again nothing
\* changes.  The future of a callback whose operation is over has been
\* cancelled, and resolving it raises InvalidStateError inside the callback.
Async_callback ==
    /\ cls = "Async"
    /\ regs.rd # None /\ readable
    /\ LET cb == Val(regs.rd)
           d == cb.d
           mine == Current(cb) /\ fut[d].st = "pending"
       IN  IF ~BoundHandle(cb.op) /\ NoHandle
           THEN /\ fut' = IF mine
                          THEN [fut EXCEPT ![d] = set_exception(regs, cb)]
                          ELSE fut
                /\ regs' = unregister(d, regs)
                /\ UNCHANGED <<lastRes, released, lost>>
           ELSE \E result \in IoResults :
                /\ released' = (released \/ handle_p = None)
                /\ lost' = (lost \/ (~mine /\ event_read(cb, result)))
                /\ lastRes' = IF Current(cb)
                              THEN [lastRes EXCEPT ![d] = Some(result)]
                              ELSE lastRes
                /\ IF WouldBlock(result)
                   THEN UNCHANGED <<regs, fut>>
                   ELSE /\ regs' = unregister(d, regs)
                        /\ fut' = IF mine
                                  THEN [fut EXCEPT ![d] =
                                          set_result(unregister(d, regs), cb,
                                                     result)]
                                  ELSE fut
    /\ UNCHANGED <<objVars, faulty, svcVars, trav, pobj, res>>
    /\ UNCHANGED <<now, readable, writable, pc, tmo, until, remaining, opid>>

\* asyncio.wait_for(fut, timeout) runs out of time: it cancels the future and
\* raises TimeoutError, and the operation returns None
Async_timeout(d) ==
    /\ cls = "Async" /\ pc[d] = "suspended"
    /\ Truthy(tmo[d])
    /\ fut[d].st = "pending"
    /\ fut' = [fut EXCEPT ![d] = NoFuture]
    /\ res' = [res EXCEPT ![d] = TimedOut(res[d])]
    /\ pc' = [pc EXCEPT ![d] = "idle"]
    /\ UNCHANGED <<objVars, faulty, svcVars, trav, pobj>>
    /\ UNCHANGED <<now, readable, writable, tmo, until, remaining, opid, regs,
                   lastRes, released, lost>>

\* the awaited future is resolved and the coroutine goes on:
\* `_check_alsa_error(result); return ...`, or the exception is raised
Async_resume(d) ==
    /\ cls = "Async" /\ pc[d] = "suspended"
    /\ fut[d].st \in {"result", "exception"}
    /\ res' = [res EXCEPT ![d] =
                 IF fut[d].st = "result" THEN Settled(res[d], d, fut[d].val)
                 ELSE Refused(res[d], d)]
    /\ fut' = [fut EXCEPT ![d] = NoFuture]
    /\ pc' = [pc EXCEPT ![d] = "idle"]
    /\ UNCHANGED <<objVars, faulty, svcVars, trav, pobj>>
    /\ UNCHANGED <<now, readable, writable, tmo, until, remaining, opid, regs,
                   lastRes, released, lost>>

\* ------------------------------------------------------------- environment
\* time.monotonic() advances
Tick ==
    /\ cls = "Sync" /\ ~torn
    /\ now < MaxClock
    /\ now' = now + 1
    /\ UNCHANGED <<objVars, faulty, svcVars, trav, pobj, res>>
    /\ UNCHANGED <<readable, writable, pc, tmo, until, remaining, fut,
                   opid, regs, lastRes, released, lost>>

\* the descriptor becomes ready, or stops being ready, for one direction
FdRead ==
    /\ cls # "Base" /\ ~torn
    /\ readable' = ~readable
    /\ UNCHANGED <<objVars, faulty, svcVars, trav, pobj, res>>
    /\ UNCHANGED <<now, writable, pc, tmo, until, remaining, fut,
                   opid, regs, lastRes, released, lost>>

\* Readiness for writing is looked at by SequencerClient's write poll only:
\* AsyncSequencerClient never asks the event loop to watch it.
FdWrite ==
    /\ cls # "Base" /\ ~torn
    /\ writable' = ~writable
    /\ UNCHANGED <<objVars, faulty, svcVars, trav, pobj, res>>
    /\ UNCHANGED <<now, readable, pc, tmo, until, remaining, fut,
                   opid, regs, lastRes, released, lost>>

\* ----------------------------------------------------------- specifications
\* A SequencerClientBase; the service holds the System client, this client and
\* any other clients.
InitBase ==
    /\ InitPlain
    /\ cls = "Base"
    /\ faulty \in BOOLEAN
    /\ InitService(1..MaxClientId)
    /\ InitObject
    /\ InitWaiters

\* A SequencerClient; the service holds the System client and this one.
InitSync ==
    /\ InitPlain
    /\ cls = "Sync"
    /\ faulty \in BOOLEAN
    /\ InitService({1})
    /\ clients = {0, 1}
    /\ InitObject
    /\ InitWaiters

\* An AsyncSequencerClient; the service holds the System client and this one.
InitAsync ==
    /\ InitPlain
    /\ cls = "Async"
    /\ faulty \in BOOLEAN
    /\ InitService({1})
    /\ clients = {0, 1}
    /\ InitObject
    /\ InitWaiters

\* the capabilities and types the ports of the other clients may have
OtherAttrs ==
    [caps : SUBSET {"READ", "WRITE", "SUBS_READ", "SUBS_WRITE"},
     type : {{"MIDI_GENERIC"}}]

\* A SequencerClientBase on a service that answers without errors, where any
\* client but the System client may be named "Midi Through" and the ports of
\* the other clients have any capabilities.
InitList ==
    /\ cls = "Base"
    /\ faulty = FALSE
    /\ InitService(1..MaxClientId)
    /\ through \in {None} \cup {Some(c) : c \in clients \ {0}}
    /\ \E oc \in OtherAttrs :
         /\ clients \ {0, client_id} = {}
              => oc = [caps |-> {}, type |-> {"MIDI_GENERIC"}]
         /\ pattr = [a \in Addrs |->
                       IF a[1] = 0 THEN SystemAttr(a[2])
                       ELSE IF a[1] = client_id THEN DefaultAttr
                       ELSE oc]
    /\ InitObject
    /\ InitWaiters

Init == InitBase \/ InitSync \/ InitAsync

\* the operations of SequencerClientBase
NextBase ==
    \/ close
    \/ __del__
    \/ drop_input
    \/ drop_buffer
    \/ Base_drain_output
    \/ drop_output
    \/ Base_event_input
    \/ Base_event_output
    \/ event_output_buffer
    \/ Base_event_output_direct
    \/ create_port
    \/ create_queue
    \/ Call_query_next_client
    \/ Call_query_next_port
    \/ get_port_info
    \/ set_port_info

\* the metadata queries, on a handle that may be closed and a client that may
\* create ports
NextQuery ==
    \/ close
    \/ create_port
    \/ Call_query_next_client
    \/ Call_query_next_port

\* the subscriptions, on a handle that may be closed
NextSub ==
    \/ close
    \/ subscribe_port
    \/ unsubscribe_port

\* the ports of a client that may be closed or torn down
NextPortObjects ==
    \/ close
    \/ __del__
    \/ create_port
    \/ Port_close
    \/ Port__del__

\* the enumeration of ports, by a client that may create ports and be closed
NextList ==
    \/ close
    \/ create_port
    \/ Call_list_ports

\* a caller's traversal of the clients
NextTraverse ==
    \/ close
    \/ __del__
    \/ create_port
    \/ TraverseStart
    \/ TraverseNext

\* the operations of SequencerClient and its environment
NextSync ==
    \/ close
    \/ __del__
    \/ Sync_event_input
    \/ Sync_output
    \/ Sync__event_output_wait
    \/ \E d \in Dirs : Sync_call(d)
    \/ \E d \in Dirs : Sync_check(d)
    \/ \E d \in Dirs : Sync_poll(d)
    \/ Tick
    \/ FdRead
    \/ FdWrite

\* the operations of AsyncSequencerClient, its event loop and its environment
NextAsync ==
    \/ close
    \/ __del__
    \/ Async_event_input
    \/ Async_output
    \/ Async__event_output_wait
    \/ Async_output_run
    \/ Async_callback
    \/ \E d \in Dirs : Async_timeout(d)
    \/ \E d \in Dirs : Async_resume(d)
    \/ FdRead
    \/ FdWrite

Next == NextBase \/ NextSub \/ NextPortObjects \/ NextList \/ NextTraverse \/ NextSync \/ NextAsync

Spec == Init /\ [][Next]_vars

SpecBase == InitBase /\ [][NextBase]_vars
SpecQuery == InitBase /\ [][NextQuery]_vars
SpecTraverse == InitBase /\ [][NextTraverse]_vars
SpecSub == InitBase /\ [][NextSub]_vars
SpecPort == InitBase /\ [][NextPortObjects]_vars
SpecList == InitList /\ [][NextList]_vars
SpecSync == InitSync /\ [][NextSync]_vars
SpecAsync == InitAsync /\ [][NextAsync]_vars
SpecWaiters == (InitSync \/ InitAsync) /\ [][NextSync \/ NextAsync]_vars

\* The calling thread of a SequencerClient goes on with its loop, a poll with a
\* time limit returns, and the clock advances.
FairSync ==
    /\ SpecSync
    /\ WF_vars(Tick)
    /\ \A d \in Dirs : WF_vars(Sync_call(d))
    /\ \A d \in Dirs : WF_vars(Sync_check(d))
    /\ \A d \in Dirs : WF_vars(Sync_poll(d))

\* The caller goes on with its traversal.
FairTraverse == SpecTraverse /\ WF_vars(TraverseNext)

\* ------------------------------------------------------------------- claims
\* The timeout arguments as the claims read them.
Positive(t) == t # None /\ Val(t) > 0
Unlimited(t) == t = None \/ t = Some(0)

\* A call record of an operation that has ended.
Ended(r) == r.op # "none" /\ r.kind \notin {"none", "pending"}

\* C1: every public operation invoked after close() fails with StateError
\* and makes no native call on the handle before failing.
C1_ClosedMeansStateError ==
    \A s \in Slots :
        (Ended(res[s]) /\ res[s].closed /\ res[s].op \notin {"close", "__del__"})
            => (res[s].kind = "StateError" /\ res[s].native = "none")

\* C2: over any sequence of close() calls and teardown the native handle is
\* released exactly once, by the first of them; a close() or teardown on a
\* closed client neither raises nor makes a native call and leaves the client
\* as the first close() left it.
C2_ReleasedOnce ==
    /\ [](nclose = IF handle_p = None THEN 1 ELSE 0)
    /\ []((res["call"].op \in {"close", "__del__"} /\ res["call"].closed)
            => (res["call"].kind = "None" /\ res["call"].native = "none"))
    /\ [][handle_p = None
            => UNCHANGED <<handle_p, handle, nclose, clients, ports>>]_vars

\* close() has been called on a client that was closed already
C2_ClosedTwice ==
    /\ res["call"].op = "close"
    /\ res["call"].closed
    /\ nclose = 1

\* C3: in SequencerClient.event_input and SequencerClient._event_output_wait
\* called with a positive timeout, the deadline is the clock at the start of
\* the call plus the timeout and no retry moves it; every readiness wait of
\* the call has a positive time limit; a call whose native call answered
\* would-block to the end returns None; and, the clock advancing, the call
\* ends.
C3_SyncDeadline ==
    /\ [](\A d \in Dirs :
            (cls = "Sync" /\ pc[d] # "idle" /\ Positive(tmo[d]))
                => /\ until # None
                   /\ pc[d] = "poll" => (remaining # None /\ Val(remaining) > 0))
    /\ [](\A d \in Dirs :
            (cls = "Sync" /\ Ended(res[d]) /\ Positive(tmo[d])
                /\ lastRes[d] = Some(-EAGAIN))
                => (res[d].kind = "None" /\ now >= 1))
    /\ [][\A d \in Dirs :
            (cls = "Sync" /\ pc'[d] # "idle" /\ Positive(tmo'[d]))
                => IF pc[d] = "idle"
                   THEN until' = Some(now + Val(tmo'[d]))
                   ELSE until' = until /\ tmo'[d] = tmo[d]]_vars
    /\ \A d \in Dirs :
            (cls = "Sync" /\ pc[d] # "idle" /\ Positive(tmo[d]))
                ~> (pc[d] = "idle")

\* a SequencerClient call with a positive timeout has returned None after
\* waiting for readiness
C3_TimedOut ==
    \E d \in Dirs :
        /\ cls = "Sync" /\ pc[d] = "idle"
        /\ Positive(tmo[d])
        /\ res[d].kind = "None"
        /\ lastRes[d] = Some(-EAGAIN)

\* the callback of the operation now in progress in direction d is registered
\* with the event loop
Registered(d) ==
    \E w \in DOMAIN regs :
        /\ regs[w] # None
        /\ Val(regs[w]).d = d
        /\ Val(regs[w]).id = opid[d]

\* C4: an AsyncSequencerClient operation called with a positive timeout that
\* returns None because the descriptor did not become ready leaves no
\* readiness callback of its own registered with the event loop.
C4_TimeoutDeregisters ==
    \A d \in Dirs :
        (cls = "Async" /\ pc[d] = "idle" /\ Positive(tmo[d])
            /\ res[d].kind = "None")
            => ~Registered(d)

\* C5: a waited call with timeout None or 0 never returns None; after a
\* would-block it goes into a readiness wait without a time limit and leaves
\* it only when the descriptor is ready or the awaited result is there; it
\* ends by returning the non-negative result of the native call or by raising
\* its negative status (or, on a client that has been closed, the error of
\* the closed handle).
C5_NoTimeoutWithoutDeadline ==
    /\ [](\A d \in Dirs :
            (cls \in {"Sync", "Async"} /\ res[d].op # "none" /\ Unlimited(tmo[d]))
                => /\ res[d].kind \in {"pending", "event", "return",
                                        "ServiceError", "StateError", "TypeError"}
                   /\ pc[d] \in {"call", "check", "poll"} => until = None
                   /\ pc[d] = "poll" => remaining = None
                   /\ res[d].kind \in {"event", "return"}
                        => (lastRes[d] = Some(res[d].val) /\ res[d].val >= 0)
                   /\ res[d].kind = "ServiceError"
                        => (lastRes[d] = Some(res[d].val) /\ res[d].val < 0)
                   /\ res[d].kind \in {"StateError", "TypeError"}
                        => handle_p = None)
    /\ [][\A d \in Dirs :
            (cls \in {"Sync", "Async"} /\ Unlimited(tmo[d]) /\ pc'[d] # pc[d])
                => /\ pc[d] = "check" => pc'[d] = "poll"
                   /\ pc[d] = "poll" => (Ready(d) /\ pc'[d] = "call")
                   /\ pc[d] = "suspended"
                        => fut[d].st \in {"result", "exception"}]_vars

\* a SequencerClient call with timeout 0 is in a readiness wait without a
\* time limit
C5_WaitsWithoutLimit ==
    \E d \in Dirs :
        /\ cls = "Sync" /\ pc[d] = "poll"
        /\ tmo[d] = Some(0)
        /\ remaining = None

\* C6: in both waiters only would-block is retried.  While an operation is at
\* its native call, in its deadline test or in a readiness wait, every native
\* call it has made answered would-block; once a native call has answered
\* anything else the operation has ended, or its future holds that answer
\* and its callback is no longer registered; the operation raises a negative
\* answer as an error carrying that status and returns a non-negative one.
C6_OnlyWouldBlockRetried ==
    \A d \in Dirs :
        (cls \in {"Sync", "Async"} /\ res[d].op # "none") =>
        /\ pc[d] \in {"call", "check", "poll", "created"}
             => lastRes[d] \in {None, Some(-EAGAIN)}
        /\ pc[d] \in {"check", "poll"} => lastRes[d] = Some(-EAGAIN)
        /\ (pc[d] = "suspended" /\ fut[d].st = "pending")
             => lastRes[d] = Some(-EAGAIN)
        /\ (lastRes[d] # None /\ Val(lastRes[d]) # -EAGAIN)
             => \/ /\ pc[d] = "idle"
                   /\ res[d].val = Val(lastRes[d])
                   /\ res[d].kind = IF Val(lastRes[d]) < 0 THEN "ServiceError"
                                    ELSE IF d = "in" THEN "event" ELSE "return"
                \/ /\ pc[d] = "suspended"
                   /\ fut[d].st = "result" /\ fut[d].val = Val(lastRes[d])
                   /\ ~Registered(d)

\* the retry made by the callback of a suspended operation has been answered
\* with an error that is not would-block
C6_ErrorAfterWait ==
    \E d \in Dirs :
        /\ cls = "Async" /\ pc[d] = "suspended"
        /\ fut[d].st = "result"
        /\ fut[d].val < 0
        /\ lastRes[d] = Some(fut[d].val)

\* C7: on one AsyncSequencerClient a suspended event_input and a suspended
\* output operation are pending together, each with its own readiness
\* callback registered.
C7_BothRegistered ==
    (/\ cls = "Async"
     /\ \A d \in Dirs : pc[d] = "suspended" /\ fut[d].st = "pending")
        => \A d \in Dirs : Registered(d)

\* C8: a traversal query_next_client(None), query_next_client(previous=last
\* result), ... over the clients of the service returns no client id twice
\* and, the service answering without errors and the client staying open,
\* comes to the answer None.
C8_TraversalEnds ==
    /\ [](~trav.revisit)
    /\ [][trav'.pc = "running"
            => (trav'.seen = trav.seen
                \/ Cardinality(trav'.seen) = Cardinality(trav.seen) + 1)]_vars
    /\ (trav.pc = "running" /\ ~faulty)
            ~> (trav.pc = "done" \/ handle_p = None)

\* a traversal has returned several clients and then None
C8_TraversalDone ==
    /\ trav.pc = "done"
    /\ Cardinality(trav.seen) >= 2
    /\ res["call"].kind = "None"

\* the record of the latest call when it is one of the two queries
IsQuery(r) == r.op \in {"query_next_client", "query_next_port"}

\* C9: query_next_client and query_next_port return None exactly when the
\* service call reports -ENOENT; another negative status is raised as an
\* error carrying it; a non-negative status returns the snapshot of the entry
\* of smallest id above the cursor.  The cursor sent to the service is -1
\* for an absent previous and the number itself for a numeric previous.
C9_NoneIffNoMoreEntries ==
    LET r == res["call"]
        sent == Val(r.sent)
    IN  IsQuery(r) =>
        /\ r.kind = "None" <=> (r.status # None /\ Val(r.status) = -ENOENT)
        /\ (r.status # None /\ Val(r.status) < 0 /\ Val(r.status) # -ENOENT)
             => (r.kind = "ServiceError" /\ r.val = Val(r.status))
        /\ (r.status # None /\ Val(r.status) >= 0 /\ r.op = "query_next_client")
             => /\ r.kind = "ClientInfo"
                /\ Val(r.cinfo).client_id \in clients
                /\ Val(r.cinfo).client_id > sent
                /\ \A c \in clients : c > sent => Val(r.cinfo).client_id <= c
                /\ Val(r.cinfo).name = ClientName(Val(r.cinfo).client_id)
        /\ (r.status # None /\ Val(r.status) >= 0 /\ r.op = "query_next_port")
             => /\ r.kind = "PortInfo"
                /\ Val(r.pinfo).client_id = r.req
                /\ <<r.req, Val(r.pinfo).port_id>> \in ports
                /\ Val(r.pinfo).port_id > sent
                /\ \A a \in ports :
                      (a[1] = r.req /\ a[2] > sent) => Val(r.pinfo).port_id <= a[2]
        /\ r.status # None
             => /\ r.arg.t = "None" => sent = -1
                /\ r.arg.t = "int" => sent = r.arg.n
                /\ r.op = "query_next_port" => r.sentc = Some(r.req)

\* a query with a numeric previous has answered None on -ENOENT
C9_NumericExhausted ==
    /\ IsQuery(res["call"])
    /\ res["call"].arg.t = "int"
    /\ res["call"].kind = "None"
    /\ res["call"].status = Some(-ENOENT)

\* C10: query_next_port with a PortInfo snapshot of another client than the
\* requested one fails with ValueError before a native record is allocated
\* and before the service is asked; on a closed handle it fails with
\* StateError instead.
C10_MismatchIsUsageError ==
    LET r == res["call"]
    IN  (r.op = "query_next_port" /\ r.arg.t = "info" /\ r.arg.c # r.req)
        => /\ r.kind = IF r.closed THEN "StateError" ELSE "ValueError"
           /\ r.allocs = 0
           /\ r.native = "none"
           /\ r.status = None

\* query_next_port has refused a snapshot of another client
C10_Refused ==
    /\ res["call"].op = "query_next_port"
    /\ res["call"].kind = "ValueError"
    /\ res["call"].arg.c # res["call"].req

\* the latest call is a list_ports that returned a list
Listed == res["call"].op = "list_ports" /\ res["call"].kind = "list"

\* the capabilities the service holds for the port a list entry names
CapsOf(e) == pattr[<<e.client_id, e.port_id>>].caps

\* the list returned has an entry for the port at address a
InList(a) ==
    \E i \in 1..Len(res["call"].list) :
        /\ res["call"].list[i].client_id = a[1]
        /\ res["call"].list[i].port_id = a[2]

\* C11: every entry list_ports returns is a port of the service with the
\* capabilities the service holds for it; when input is requested it has
\* READ and, with only_connectable, SUBS_READ; when output is requested it
\* has WRITE and, with only_connectable, SUBS_WRITE.
C11_RequestedDirection ==
    Listed =>
        LET a == Val(res["call"].largs)
        IN  \A i \in 1..Len(res["call"].list) :
              LET e == res["call"].list[i]
              IN  /\ <<e.client_id, e.port_id>> \in ports
                  /\ e.capability = CapsOf(e)
                  /\ a.input => "READ" \in CapsOf(e)
                  /\ (a.input /\ a.only_connectable) => "SUBS_READ" \in CapsOf(e)
                  /\ a.output => "WRITE" \in CapsOf(e)
                  /\ (a.output /\ a.only_connectable) => "SUBS_WRITE" \in CapsOf(e)

\* list_ports(input=True, only_connectable=True) has returned ports while the
\* service holds a port that can be read and cannot be subscribed for reading
C11_ReadableUnconnectableLeftOut ==
    /\ Listed
    /\ Val(res["call"].largs).input /\ Val(res["call"].largs).only_connectable
    /\ ~Val(res["call"].largs).output
    /\ Len(res["call"].list) >= 1
    /\ \E a \in ports :
         /\ "READ" \in pattr[a].caps /\ "SUBS_READ" \notin pattr[a].caps
         /\ "SUBS_WRITE" \in pattr[a].caps
         /\ ~InList(a)

\* what the filters of list_ports let through, as the interface states them:
\* every bit of a requested type, NO_EXPORT only when included, and the
\* capabilities of the requested direction
Passes(a, args) ==
    LET caps == pattr[a].caps
        connectable_in == {"READ", "SUBS_READ"} \subseteq caps
        connectable_out == {"WRITE", "SUBS_WRITE"} \subseteq caps
    IN  /\ args.type \subseteq pattr[a].type
        /\ "NO_EXPORT" \in caps => args.include_no_export
        /\ args.input =>
              IF args.only_connectable THEN connectable_in ELSE "READ" \in caps
        /\ args.output =>
              IF args.only_connectable THEN connectable_out ELSE "WRITE" \in caps
        /\ (~args.input /\ ~args.output) =>
              IF args.only_connectable THEN connectable_in \/ connectable_out
              ELSE "READ" \in caps \/ "WRITE" \in caps

\* C12: with include_system=False no entry is a port of client 0, with
\* include_midi_through=False none is a port of a client named
\* "Midi Through"; a skipped client does not end the enumeration: every port
\* of every client that is not skipped and passes the filters is returned,
\* once, with the name of its client.
C12_SkippedClientsOnly ==
    Listed =>
        LET args == Val(res["call"].largs)
            list == res["call"].list
            excluded(c) ==
                \/ c = 0 /\ ~args.include_system
                \/ through = Some(c) /\ c # 0 /\ ~args.include_midi_through
        IN  /\ \A i \in 1..Len(list) :
                 /\ ~excluded(list[i].client_id)
                 /\ list[i].client_name =
                      (IF list[i].client_id = 0 THEN <<"System">>
                       ELSE IF through = Some(list[i].client_id)
                       THEN <<"Midi Through">> ELSE <<"client">>)
                 /\ \A j \in 1..Len(list) :
                      (list[j].client_id = list[i].client_id
                       /\ list[j].port_id = list[i].port_id) => j = i
            /\ \A a \in ports :
                 (~excluded(a[1]) /\ Passes(a, args)) => InList(a)

\* an enumeration without the System client and without "Midi Through",
\* both present with ports that pass the filters, has returned the ports of
\* this client and of another one
C12_TwoClientsListed ==
    /\ Listed
    /\ ~Val(res["call"].largs).include_system
    /\ ~Val(res["call"].largs).include_midi_through
    /\ \E a \in ports : a[1] = 0 /\ Passes(a, Val(res["call"].largs))
    /\ through # None /\ Val(through) = client_id
    /\ \E a \in ports : a[1] \notin {0, client_id} /\ InList(a)
    /\ ~\E a \in ports : a[1] = client_id /\ InList(a)
    /\ \E a \in ports : a[1] = client_id

IsSubCall(r) == r.op \in {"subscribe_port", "unsubscribe_port"} /\ ~r.closed

\* C13: subscribe_port and unsubscribe_port on an open handle: once the
\* descriptor is allocated it is freed exactly once, whether the service call
\* succeeded or answered a negative status; a negative status is raised as an
\* error and only a non-negative one returns; the descriptor handed to the
\* service carries the given sender and destination, the three flags, and a
\* queue only when one was given.
C13_DescriptorScoped ==
    LET r == res["call"]
    IN  IsSubCall(r) =>
          /\ r.allocs \in {0, 1} /\ r.frees = r.allocs
          /\ r.allocs = 0 => r.kind = "ServiceError" /\ r.native = "none"
          /\ r.allocs = 1 =>
               /\ r.native = (IF r.op = "subscribe_port"
                              THEN "snd_seq_subscribe_port"
                              ELSE "snd_seq_unsubscribe_port")
               /\ r.kind \in {"None", "ServiceError"}
               /\ r.kind = "ServiceError" <=> r.val < 0
               /\ LET args == Val(r.sargs)
                      sub == Val(r.sub)
                  IN  /\ sub.sender = Some(args.sender)
                      /\ sub.dest = Some(args.dest)
                      /\ sub.exclusive = (IF args.exclusive THEN 1 ELSE 0)
                      /\ sub.time_update = (IF args.time_update THEN 1 ELSE 0)
                      /\ sub.time_real = (IF args.time_real THEN 1 ELSE 0)
                      /\ args.queue.t = "None" <=> sub.queue = None
                      /\ args.queue.t # "None" => sub.queue = Some(args.queue.n)

\* the service refused a subscription asked for without a queue: the
\* descriptor was allocated and freed and carries no queue
C13_RefusedWithoutQueue ==
    /\ IsSubCall(res["call"])
    /\ res["call"].op = "unsubscribe_port"
    /\ res["call"].kind = "ServiceError" /\ res["call"].val < 0
    /\ res["call"].allocs = 1 /\ res["call"].frees = 1
    /\ Val(res["call"].sargs).queue.t = "None"
    /\ Val(res["call"].sub).queue = None
    /\ Val(res["call"].sargs).exclusive

\* C14: create_port and create_queue on a closed handle raise StateError
\* without a native call; on an open handle a negative status of the service
\* is raised as an error and no object is returned, and otherwise the Port or
\* Queue returned is bound to this client and carries the id the service
\* answered; create_queue calls the named allocation when a name is given and
\* the anonymous one otherwise.
C14_FactoriesBindToClient ==
    LET r == res["call"]
    IN  r.op \in {"create_port", "create_queue"} =>
          /\ r.closed =>
               /\ r.kind = "StateError" /\ r.native = "none"
               /\ r.port = None /\ r.queue = None
          /\ (~r.closed /\ r.val < 0) =>
               /\ r.kind = "ServiceError"
               /\ r.port = None /\ r.queue = None
          /\ (~r.closed /\ r.val >= 0 /\ r.op = "create_port") =>
               /\ r.kind = "Port" /\ r.port # None /\ r.queue = None
               /\ Val(r.port).client = Some(client_id)
               /\ Val(r.port).port_id = r.val
          /\ (~r.closed /\ r.val >= 0 /\ r.op = "create_queue") =>
               /\ r.kind = "Queue" /\ r.queue # None /\ r.port = None
               /\ Val(r.queue).client = Some(client_id)
               /\ Val(r.queue).queue_id = r.val
          /\ (~r.closed /\ r.op = "create_port") =>
               r.native = "snd_seq_create_simple_port"
          /\ (~r.closed /\ r.op = "create_queue") =>
               r.native = (IF r.arg.n = 1 THEN "snd_seq_alloc_named_queue"
                           ELSE "snd_seq_alloc_queue")

\* a queue was asked for by name on an open handle and the service answered
\* a queue id other than 0: the Queue returned carries it
C14_NamedQueueReturned ==
    /\ res["call"].op = "create_queue" /\ ~res["call"].closed
    /\ res["call"].arg.n = 1
    /\ res["call"].val > 0
    /\ res["call"].queue # None
    /\ Val(res["call"].queue).queue_id = res["call"].val
    /\ res["call"].native = "snd_seq_alloc_named_queue"

C16_ResumedByWriteReadiness ==
    (/\ cls = "Async"
     /\ pc["out"] = "suspended" /\ fut["out"].st = "pending"
     /\ writable)
        => ENABLED Async_callback

\* C17: a readiness callback that ends the wait resolves its future only
\* after it has removed its registration from the event loop, whether it sets
\* a result or an exception; a retry that would block again leaves the
\* callback registered and the future pending.
C17_DeregistersBeforeResolving ==
    \A d \in Dirs :
        /\ fut[d].st \in {"result", "exception"} => ~fut[d].reg
        /\ (cls = "Async" /\ pc[d] = "suspended" /\ fut[d].st = "pending"
            /\ lastRes[d] = Some(-EAGAIN) /\ opid["in"] + opid["out"] = 1)
             => regs.rd # None /\ Val(regs.rd).d = d

\* C18: in SequencerClient an input operation that got would-block waits on
\* the poll set registered for read interest and an output operation on the
\* one registered for write interest: a wait without time limit of an input
\* operation ends only while the descriptor is ready for reading, and one of
\* an output operation only while it is ready for writing.
C18_SeparatePollSets ==
    [][\A d \in Dirs :
         (cls = "Sync" /\ pc[d] = "poll" /\ remaining = None
          /\ pc'[d] # "poll")
            => IF d = "in" THEN readable ELSE writable]_vars

\* event_input without timeout is inside its poll while the descriptor is
\* ready for writing and not for reading
C18_InputWaitsWhileWritable ==
    /\ cls = "Sync" /\ pc["in"] = "poll" /\ remaining = None
    /\ res["in"].op = "event_input"
    /\ writable /\ ~readable

\* the order in which the service enumerates ports: by client, then by port
Before(e, f) ==
    \/ e.client_id < f.client_id
    \/ e.client_id = f.client_id /\ e.port_id < f.port_id

\* C19: list_ports orders its result by the caller's callable when sort is
\* one; with sort=True by the table chosen by first match (output without
\* input: the write-preferred table; otherwise input without output: the
\* read-preferred table; otherwise the bidirectional table); with sort=False
\* it returns the enumeration order.  Ports with equal keys keep their
\* enumeration order.
C19_FirstMatchSortKey ==
    Listed =>
        LET args == Val(res["call"].largs)
            list == res["call"].list
            table == IF args.sort = "callable" THEN "callable"
                     ELSE IF args.sort = "False" THEN "none"
                     ELSE IF args.output /\ ~args.input THEN "WRITE"
                     ELSE IF args.input /\ ~args.output THEN "READ"
                     ELSE "RW"
        IN  /\ res["call"].table = table
            /\ \A i, j \in 1..Len(list) :
                 i < j =>
                   /\ KeyOf(table, list[i]) <= KeyOf(table, list[j])
                   /\ KeyOf(table, list[i]) = KeyOf(table, list[j])
                        => Before(list[i], list[j])

\* C20: list_ports called with neither input nor output returns a port that
\* passed the type and no-export filters (and whose client is not skipped) if
\* and only if, with only_connectable, it has READ and SUBS_READ or WRITE and
\* SUBS_WRITE and, without only_connectable, it has READ or WRITE.
C20_NeitherDirection ==
    (Listed /\ ~Val(res["call"].largs).input /\ ~Val(res["call"].largs).output)
      => LET args == Val(res["call"].largs)
             considered(a) ==
                 /\ a[1] = 0 => args.include_system
                 /\ (through = Some(a[1]) /\ a[1] # 0)
                      => args.include_midi_through
                 /\ args.type \subseteq pattr[a].type
                 /\ "NO_EXPORT" \in pattr[a].caps => args.include_no_export
             has(a, c) == c \in pattr[a].caps
         IN  \A a \in ports :
                 considered(a) =>
                   (InList(a) <=>
                      IF args.only_connectable
                      THEN \/ has(a, "READ") /\ has(a, "SUBS_READ")
                           \/ has(a, "WRITE") /\ has(a, "SUBS_WRITE")
                      ELSE has(a, "READ") \/ has(a, "WRITE"))

\* with only_connectable and no direction, a port that can be read and
\* written but subscribed to in neither direction was left out while another
\* client's port was returned
C20_UnconnectableLeftOut ==
    /\ Listed
    /\ ~Val(res["call"].largs).input /\ ~Val(res["call"].largs).output
    /\ Val(res["call"].largs).only_connectable
    /\ Val(res["call"].largs).type = {}
    /\ \E a \in ports :
         /\ a[1] # 0 /\ through # Some(a[1])
         /\ pattr[a].caps = {"READ", "WRITE"}
         /\ ~InList(a)
    /\ Len(res["call"].list) > 0

\* C21: list_ports called with both input and output applies only the
\* combined rule of the case without a direction: a port that passed the type
\* and no-export filters (and whose client is not skipped) is returned if and
\* only if, with only_connectable, it has READ and SUBS_READ or WRITE and
\* SUBS_WRITE and, without only_connectable, it has READ or WRITE.
C21_BothDirectionsCombinedRule ==
    (Listed /\ Val(res["call"].largs).input /\ Val(res["call"].largs).output)
      => LET args == Val(res["call"].largs)
             considered(a) ==
                 /\ a[1] = 0 => args.include_system
                 /\ (through = Some(a[1]) /\ a[1] # 0)
                      => args.include_midi_through
                 /\ args.type \subseteq pattr[a].type
                 /\ "NO_EXPORT" \in pattr[a].caps => args.include_no_export
             has(a, c) == c \in pattr[a].caps
         IN  \A a \in ports :
                 considered(a) =>
                   (InList(a) <=>
                      IF args.only_connectable
                      THEN \/ has(a, "READ") /\ has(a, "SUBS_READ")
                           \/ has(a, "WRITE") /\ has(a, "SUBS_WRITE")
                      ELSE has(a, "READ") \/ has(a, "WRITE"))

\* C22: list_ports returns a port only if the type of the port has every bit
\* of the requested type (an empty type asks for nothing), and a port with
\* NO_EXPORT only when include_no_export is true; a port rejected by one of
\* the two filters does not end the enumeration of its client: the ports of
\* the client after it that pass the filters are returned.
C22_TypeAndNoExport ==
    Listed =>
        LET args == Val(res["call"].largs)
            list == res["call"].list
            rejected(a) ==
                \/ \E t \in args.type : t \notin pattr[a].type
                \/ "NO_EXPORT" \in pattr[a].caps /\ ~args.include_no_export
        IN  /\ \A i \in 1..Len(list) :
                 /\ \A t \in args.type : t \in list[i].type
                 /\ "NO_EXPORT" \in list[i].capability
                      => args.include_no_export
            /\ \A a \in ports : rejected(a) => ~InList(a)
            /\ \A a, b \in ports :
                 (/\ a[1] = b[1] /\ a[2] < b[2]
                  /\ rejected(a) /\ Passes(b, args)
                  /\ b[1] = 0 => args.include_system
                  /\ (through = Some(b[1]) /\ b[1] # 0)
                       => args.include_midi_through)
                    => InList(b)

\* a list asked for with a type: the first port of the System client lacks
\* the type and is left out, the next port of that client is returned
C22_ReturnedAfterRejected ==
    /\ Listed
    /\ Val(res["call"].largs).type = {"MIDI_GENERIC"}
    /\ Val(res["call"].largs).include_system
    /\ {<<0, 0>>, <<0, 1>>} \subseteq ports
    /\ "MIDI_GENERIC" \notin pattr[<<0, 0>>].type
    /\ ~InList(<<0, 0>>) /\ InList(<<0, 1>>)

\* C23: on an AsyncSequencerClient, however close() is interleaved with the
\* input and output operations, no native input or output call is made with
\* a handle that has been closed, and no readiness callback is registered for
\* the descriptor of a closed handle.
C23_NothingLeftAfterClose ==
    cls = "Async" =>
        /\ ~released
        /\ handle_p = None => (regs.rd = None /\ regs.wr = None)

\* C24: on an AsyncSequencerClient every event that a native input call takes
\* from the service is returned to the caller of some event_input: no
\* callback of an operation that is over (its future cancelled by the
\* timeout) reads an event and tries to resolve that future.
C24_NoEventLost ==
    cls = "Async" => ~lost

\* C25: the ClientInfo snapshot that query_next_client builds from the native
\* record of a client reports each flag from its own field of the record:
\* broadcast_filter is the broadcast-filter flag of the record and
\* error_bounce its error-bounce flag.
C25_FlagsFromOwnField ==
    (res["call"].op = "query_next_client" /\ res["call"].cinfo # None) =>
        LET info == Val(res["call"].cinfo)
            record == SvcClientInfo(info.client_id)
        IN  /\ info.broadcast_filter = (record.broadcast_filter = 1)
            /\ info.error_bounce = (record.error_bounce = 1)

====
